---- MODULE Spec2Model ----
(***************************************************************************)
(* Model of the exam seating allocator: allocate_for_slot and              *)
(* check_clashes of app.py (streamlit.py holds the same two functions).    *)
(*                                                                         *)
(* Text cells are sequences of one-character strings, so that stripping    *)
(* and number parsing are computed rather than assumed.  Subject ids are   *)
(* plain strings: run() strips them before the call and the allocator      *)
(* never converts them.                                                    *)
(***************************************************************************)
EXTENDS Integers, Sequences, FiniteSets, TLC

\* ------------------------------------------------------------------ bounds
MaxSubjects == 2
MaxRooms == 2
MaxBuffer == 1
MaxEnroll == 2
MaxSessions == 2

\* ------------------------------------------------------------ text cells
\* A cell pandas reads as missing (pd.isna(x) is true).
NA == <<"<NA>">>

Digits == {"0", "1", "2", "3", "4", "5", "6", "7", "8", "9"}

DigitVal(c) ==
    CASE c = "0" -> 0 [] c = "1" -> 1 [] c = "2" -> 2 [] c = "3" -> 3
      [] c = "4" -> 4 [] c = "5" -> 5 [] c = "6" -> 6 [] c = "7" -> 7
      [] c = "8" -> 8 [] c = "9" -> 9

RECURSIVE LStrip(_)
LStrip(t) == IF t # <<>> /\ Head(t) = " " THEN LStrip(Tail(t)) ELSE t

RECURSIVE RStrip(_)
RStrip(t) ==
    IF t # <<>> /\ t[Len(t)] = " " THEN RStrip(SubSeq(t, 1, Len(t) - 1)) ELSE t

\* safe_strip: a missing cell becomes the empty text, anything else loses
\* its leading and trailing blanks.
safe_strip(x) == IF x = NA THEN <<>> ELSE RStrip(LStrip(x))

\* Length of the longest prefix of t made of digits.
RECURSIVE DigitRun(_)
DigitRun(t) ==
    IF t # <<>> /\ Head(t) \in Digits THEN 1 + DigitRun(Tail(t)) ELSE 0

RECURSIVE DigitsValue(_, _)
DigitsValue(t, acc) ==
    IF t = <<>> THEN acc ELSE DigitsValue(Tail(t), 10 * acc + DigitVal(Head(t)))

\* float(text) for the decimal literals [sign] digits [. digits] and
\* [sign] . digits; every other text raises ValueError.
FloatOk(t) ==
    LET u == IF t # <<>> /\ Head(t) \in {"+", "-"} THEN Tail(t) ELSE t
        n == DigitRun(u)
        rest == SubSeq(u, n + 1, Len(u))
        frac == IF rest # <<>> /\ Head(rest) = "." THEN Tail(rest) ELSE <<>>
    IN  \/ n > 0 /\ rest = <<>>
        \/ n > 0 /\ rest # <<>> /\ Head(rest) = "." /\ DigitRun(frac) = Len(frac)
        \/ n = 0 /\ rest # <<>> /\ Head(rest) = "." /\ frac # <<>>
           /\ DigitRun(frac) = Len(frac)

\* int(float(text)): the fraction is cut off (truncation toward zero).
IntOfFloat(t) ==
    LET neg == t # <<>> /\ Head(t) = "-"
        u == IF t # <<>> /\ Head(t) \in {"+", "-"} THEN Tail(t) ELSE t
        whole == DigitsValue(SubSeq(u, 1, DigitRun(u)), 0)
    IN  IF neg THEN 0 - whole ELSE whole

\* try: cap = int(float(safe_strip(cell))) except: cap = 0
ParseCapacity(cell) ==
    LET t == safe_strip(cell) IN IF FloatOk(t) THEN IntOfFloat(t) ELSE 0

\* safe_strip(cell) or "Block"
ParseBlock(cell) ==
    LET t == safe_strip(cell) IN IF t = <<>> THEN <<"B", "l", "o", "c", "k">> ELSE t

Min(a, b) == IF a <= b THEN a ELSE b
Max(a, b) == IF a >= b THEN a ELSE b

RECURSIVE SumSeq(_)
SumSeq(q) == IF q = <<>> THEN 0 ELSE Head(q) + SumSeq(Tail(q))

\* Set of the elements of a sequence.
Range(q) == {q[i] : i \in 1..Len(q)}

\* All orders in which the elements of S can be listed once each.
Perms(S) ==
    {q \in [1..Cardinality(S) -> S] : \A i, j \in 1..Cardinality(S) : i # j => q[i] # q[j]}

\* ------------------------------------------------------------------ inputs
SubjectIds == {"A", "B"}
Densities == {"dense", "sparse"}
Buffers == 0..MaxBuffer

\* subjects argument: run() splits a timetable cell on ";" and keeps every
\* non-blank piece, so an id may occur more than once.
SubjectLists == UNION {[1..n -> SubjectIds] : n \in 1..MaxSubjects}

StudentSeq == << <<"a">>, <<"b">>, <<"c">> >>

\* Enrollment lists as run() collects them: stripped, non-blank, repeats kept.
\* Lists are taken in id order only: the allocator turns every list into a
\* set, whose iteration order BuildRosters chooses freely.
Students == Range(StudentSeq)

EnrollLists ==
    UNION {{[i \in 1..n |-> StudentSeq[f[i]]] :
              f \in {g \in [1..n -> 1..Len(StudentSeq)] :
                        \A i \in 1..n : \A j \in 1..n : i < j => g[i] <= g[j]}}
             : n \in 0..MaxEnroll}

\* students_by_subject: a mapping that may lack a subject altogether.
Enrollments ==
    UNION {[D -> EnrollLists] : D \in SUBSET SubjectIds}

Row(room, block, cap) == [room |-> room, block |-> block, cap |-> cap]

\* Room sheets used when the subjects and rosters are varied.
FixedRooms ==
    { << Row(<<"1">>, <<"X">>, <<"3">>), Row(<<"2">>, <<"X">>, <<"3">>) >>,
      << Row(<<"1">>, <<"X">>, <<"1">>), Row(<<"2">>, <<"Y">>, <<"2">>) >>,
      << Row(<<"1">>, <<"X">>, <<"1">>), Row(<<"2">>, <<"Y">>, <<"1">>),
         Row(<<"3">>, <<"X">>, <<"1">>) >> }

\* Rosters used when the room sheet is varied.
FixedEnrollments ==
    { [s \in SubjectIds |-> IF s = "A" THEN << <<"a">>, <<"b">> >>
                                       ELSE << <<"b">>, <<"c">> >>],
      [s \in SubjectIds |-> IF s = "A" THEN << <<"a">> >>
                                       ELSE << <<"a">>, <<"b">>, <<"b">> >>],
      [s \in {"A"} |-> << <<"c">>, <<" ">>, <<"a", " ">>, NA, <<"a">> >>] }

RoomCells == {<<"1">>, <<"2">>}
BlockCells == {NA, <<"X">>}
CapCellsFew == {<<"1">>, <<"3">>}
CapCells ==
    { NA, <<>>, <<"x">>, <<"0">>, <<"2">>, <<" ", "4", " ">>, <<"-", "1">>,
      <<"2", ".", "9">>, <<".", "5">>, <<"1", "2">>, <<"3", "x">> }

RoomSheets ==
    UNION {[1..n -> {Row(r, b, c) : r \in RoomCells, b \in BlockCells, c \in CapCellsFew}]
             : n \in 0..MaxRooms}

\* A workbook and a command line: the sessions of the timetable (the
\* non-empty Morning and Evening cells, row after row), the enrollment
\* mapping, the room sheet, the options, and how many more times the
\* program is launched on the same files.
Workbook(tt, sbs, rooms, buf, dens, again) ==
    [subjects |-> tt[1], timetable |-> tt, students_by_subject |-> sbs,
     rooms_df |-> rooms, buffer |-> buf, density |-> dens, reruns |-> again]

\* One session, one launch.
Input(subs, sbs, rooms, buf, dens) == Workbook(<<subs>>, sbs, rooms, buf, dens, 0)

\* Every roster combination, two subject orders, fixed room sheets.
InputsByEnrollment ==
    {Input(subs, sbs, rooms, 0, "dense") :
        subs \in {<<"A", "B">>, <<"B", "A">>}, sbs \in Enrollments, rooms \in FixedRooms}

\* Every subject list, fixed rosters and room sheets.
InputsBySubjects ==
    {Input(subs, sbs, rooms, buf, "dense") :
        subs \in SubjectLists, sbs \in FixedEnrollments, rooms \in FixedRooms,
        buf \in {0}}

\* Every room sheet, buffer and density, fixed rosters.
InputsByRooms ==
    {Input(<<"A", "B">>, sbs, rooms, buf, dens) :
        sbs \in {[s \in SubjectIds |-> IF s = "A" THEN << <<"a">>, <<"b">> >>
                                                   ELSE << <<"b">> >>]},
        rooms \in RoomSheets, buf \in Buffers, dens \in Densities}

\* Every capacity text in a one-room sheet.
InputsByCapacity ==
    {Input(<<"B", "A">>, sbs, << Row(<<"1">>, NA, c) >>, buf, dens) :
        sbs \in FixedEnrollments, c \in CapCells, buf \in Buffers, dens \in Densities}

\* The worked examples: two rooms of 20 with rosters of 15 and 10 (scaled by
\* 5: rooms of 4, rosters of 3 and 2), one room of 10 with a roster of 15
\* (scaled by 5: a room of 2, a roster of 3), a room of 20 under buffer 5.
ExampleTwoRooms ==
    Input(<<"A", "B">>,
          [s \in SubjectIds |-> IF s = "A" THEN StudentSeq ELSE SubSeq(StudentSeq, 1, 2)],
          << Row(<<"1">>, <<"X">>, <<"4">>), Row(<<"2">>, <<"X">>, <<"4">>) >>,
          0, "dense")

ExampleOverDemand ==
    Input(<<"A">>, [s \in {"A"} |-> StudentSeq],
          << Row(<<"1">>, <<"X">>, <<"2">>) >>, 0, "dense")

ExampleBuffer(dens) ==
    Input(<<"A">>, [s \in {"A"} |-> SubSeq(StudentSeq, 1, 1)],
          << Row(<<"1">>, <<"X">>, <<"2", "0">>) >>, 5, dens)

InputsByExample ==
    {ExampleTwoRooms, ExampleOverDemand} \cup {ExampleBuffer(d) : d \in Densities}

\* Timetables of several sessions over the same rosters and rooms.
SessionLists == {<<"A">>, <<"B">>, <<"A", "B">>}

Timetables == UNION {[1..n -> SessionLists] : n \in 2..MaxSessions}

InputsBySessions ==
    {Workbook(tt, sbs, rooms, 0, "dense", 0) :
        tt \in Timetables, sbs \in FixedEnrollments, rooms \in FixedRooms}

\* The program launched twice on the same workbook.
InputsByRelaunch ==
    {Workbook(tt, sbs, rooms, 0, "dense", 1) :
        tt \in {<< <<"A", "B">> >>, << <<"B">>, <<"A">> >>},
        sbs \in FixedEnrollments, rooms \in FixedRooms}

Inputs ==
    InputsByEnrollment \cup InputsBySubjects \cup InputsByRooms \cup InputsByCapacity
        \cup InputsByExample \cup InputsBySessions \cup InputsByRelaunch

\* ------------------------------------------------------------------- state
VARIABLES
    subjects, students_by_subject, rooms_df, buffer, density,  \* arguments
    subject_rolls,     \* subject -> set of roll texts
    roll_order,        \* subject -> the order in which that set iterates
    subject_counts,    \* subject -> size of the set
    rooms_info,        \* dict room -> info, as entries in insertion order
    rooms_by_block,    \* dict block -> room list, as entries in insertion order
    clashes,           \* list of <<subject, subject, roll>>
    assignments,       \* subject -> list of [room, rolls]
    order,             \* sorted(subjects, key=-count)
    si, needed, assigned, bi, ri,   \* loop positions and counters
    overall_rows, seats_left_rows,
    pc,
    h_passes,          \* history: subjects in the order their passes began
    h_avail,           \* history: total remaining when the current pass began
    h_base,            \* history: entries assignments[s] held when the pass began
    timetable,         \* run(): the sessions of the timetable, in order
    ti,                \* run(): position of the current session
    all_overall, all_seats_left,   \* run(): rows collected over the sessions
    set_order,         \* this process: roll list -> iteration order of its set
    reruns,            \* launches of the program still to come
    h_prev             \* history: all_overall of each earlier launch

vars ==
    << subjects, students_by_subject, rooms_df, buffer, density, subject_rolls,
       roll_order, subject_counts, rooms_info, rooms_by_block, clashes,
       assignments, order, si, needed, assigned, bi, ri, overall_rows,
       seats_left_rows, pc, h_passes, h_avail, h_base, timetable, ti,
       all_overall, all_seats_left, set_order, reruns, h_prev >>

args == << subjects, students_by_subject, rooms_df, buffer, density >>
rosters == << subject_rolls, roll_order, subject_counts >>
loopvars == << si, needed, assigned, bi, ri >>
outputs == << overall_rows, seats_left_rows >>
history == << h_passes, h_avail, h_base >>
caller == << timetable, ti, all_overall, all_seats_left, reruns, h_prev >>

Init ==
    /\ \E inp \in Inputs :
          /\ subjects = inp.subjects
          /\ students_by_subject = inp.students_by_subject
          /\ rooms_df = inp.rooms_df
          /\ buffer = inp.buffer
          /\ density = inp.density
          /\ timetable = inp.timetable
          /\ reruns = inp.reruns
    /\ ti = 1
    /\ all_overall = <<>> /\ all_seats_left = <<>>
    /\ set_order = <<>>
    /\ h_prev = <<>>
    /\ subject_rolls = <<>> /\ roll_order = <<>> /\ subject_counts = <<>>
    /\ rooms_info = <<>> /\ rooms_by_block = <<>>
    /\ clashes = <<>> /\ assignments = <<>> /\ order = <<>>
    /\ si = 0 /\ needed = 0 /\ assigned = 0 /\ bi = 0 /\ ri = 0
    /\ overall_rows = <<>> /\ seats_left_rows = <<>>
    /\ pc = "rosters"
    /\ h_passes = <<>> /\ h_avail = 0 /\ h_base = 0

\* ----------------------------------------------------------------- rosters
\* students_by_subject.get(s, [])
EnrolledList(sbs, s) == IF s \in DOMAIN sbs THEN sbs[s] ELSE <<>>

\* set(safe_strip(r) for r in ... if safe_strip(r))
RollSet(sbs, s) ==
    {safe_strip(EnrolledList(sbs, s)[i]) : i \in 1..Len(EnrolledList(sbs, s))} \ {<<>>}

\* The rolls in the order the generator hands them to set(): stripped,
\* blanks dropped, repeats kept.
RollList(sbs, s) ==
    SelectSeq([i \in 1..Len(EnrolledList(sbs, s)) |-> safe_strip(EnrolledList(sbs, s)[i])],
              LAMBDA t : t # <<>>)

\* Variant: the lookup is students_by_subject[s] on the defaultdict, which
\* adds a missing subject with an empty list.
AfterLookups_Inserting(sbs, subs) ==
    [s \in DOMAIN sbs \cup Range(subs) |-> EnrolledList(sbs, s)]

\* The enrollment mapping after the .get(s, []) lookups: as it was.
AfterLookups(sbs, subs) == sbs

\* The orders in which a set filled from the list l may iterate.
SetOrders(l) == Perms(Range(l))

\* A set iterates in an order fixed by the hashes of this process and by
\* the insertions made: a roll list met before gives the same order again,
\* a new roll list may give any order.
BuildRosters ==
    /\ pc = "rosters"
    /\ students_by_subject' = AfterLookups(students_by_subject, subjects)
    /\ subject_rolls' = [s \in Range(subjects) |-> RollSet(students_by_subject, s)]
    /\ LET lists == {RollList(students_by_subject, s) : s \in Range(subjects)}
           fresh == lists \ DOMAIN set_order
       IN  \E chosen \in [fresh -> UNION {SetOrders(l) : l \in fresh}] :
              /\ \A l \in fresh : chosen[l] \in SetOrders(l)
              /\ set_order' = [l \in DOMAIN set_order \cup fresh |->
                                  IF l \in fresh THEN chosen[l] ELSE set_order[l]]
    /\ roll_order' = [s \in Range(subjects) |->
                         set_order'[RollList(students_by_subject, s)]]
    /\ subject_counts' = [s \in Range(subjects) |-> Cardinality(subject_rolls'[s])]
    /\ pc' = "rooms"
    /\ UNCHANGED << subjects, rooms_df, buffer, density, caller, rooms_info,
                    rooms_by_block, clashes, assignments, order, loopvars, outputs,
                    history >>

\* ------------------------------------------------------------------- rooms
\* Position of key k among dict entries (0 when absent); field names the key.
RECURSIVE RoomIndex(_, _)
RoomIndex(entries, room) ==
    IF entries = <<>> THEN 0
    ELSE IF entries[Len(entries)].room = room THEN Len(entries)
    ELSE RoomIndex(SubSeq(entries, 1, Len(entries) - 1), room)

RECURSIVE BlockIndex(_, _)
BlockIndex(entries, block) ==
    IF entries = <<>> THEN 0
    ELSE IF entries[Len(entries)].block = block THEN Len(entries)
    ELSE BlockIndex(SubSeq(entries, 1, Len(entries) - 1), block)

\* rooms_info[room] = {...}: a new key goes last, a known key keeps its place
\* and takes the new value.
PutRoom(entries, e) ==
    IF RoomIndex(entries, e.room) = 0 THEN Append(entries, e)
    ELSE [entries EXCEPT ![RoomIndex(entries, e.room)] = e]

\* Variant: every record opens a block of its own, so the rooms stay in
\* record order.
AppendToBlock_NoGrouping(entries, block, room) ==
    Append(entries, [block |-> block, rooms |-> <<room>>])

\* rooms_by_block[block].append(room) on a defaultdict(list)
AppendToBlock(entries, block, room) ==
    IF BlockIndex(entries, block) = 0
    THEN Append(entries, [block |-> block, rooms |-> <<room>>])
    ELSE [entries EXCEPT ![BlockIndex(entries, block)].rooms = Append(@, room)]

RoomEntry(row) ==
    [room |-> safe_strip(row.room), block |-> ParseBlock(row.block),
     capacity |-> ParseCapacity(row.cap), remaining |-> 0]

RECURSIVE ReadRoomsInfo(_, _)
ReadRoomsInfo(rows, acc) ==
    IF rows = <<>> THEN acc
    ELSE ReadRoomsInfo(Tail(rows), PutRoom(acc, RoomEntry(Head(rows))))

RECURSIVE ReadRoomsByBlock(_, _)
ReadRoomsByBlock(rows, acc) ==
    IF rows = <<>> THEN acc
    ELSE ReadRoomsByBlock(Tail(rows),
            AppendToBlock(acc, ParseBlock(Head(rows).block), safe_strip(Head(rows).room)))

BuildRooms ==
    /\ pc = "rooms"
    /\ rooms_info' = ReadRoomsInfo(rooms_df, <<>>)
    /\ rooms_by_block' = ReadRoomsByBlock(rooms_df, <<>>)
    /\ pc' = "remaining"
    /\ UNCHANGED << args, caller, set_order, rosters, clashes, assignments, order,
                    loopvars, outputs, history >>

\* Variant: the buffer is subtracted without the clamp at 0.
eff_cap_room_Unclamped(capacity, buf) == capacity - buf

eff_cap_room(capacity, buf) == Max(0, capacity - buf)

eff_cap_per_sub(capacity, buf, dens) ==
    IF dens = "sparse" THEN eff_cap_room(capacity, buf) \div 2
    ELSE eff_cap_room(capacity, buf)

InitRemaining ==
    /\ pc = "remaining"
    /\ rooms_info' =
          [i \in 1..Len(rooms_info) |->
              [rooms_info[i] EXCEPT
                  !.remaining = eff_cap_per_sub(rooms_info[i].capacity, buffer, density)]]
    /\ pc' = "clashes"
    /\ UNCHANGED << args, caller, set_order, rosters, rooms_by_block, clashes,
                    assignments, order, loopvars, outputs, history >>

\* ----------------------------------------------------------------- clashes
\* Keys of a dict filled in list order: each id once, at its first position.
RECURSIVE FirstSeen(_)
FirstSeen(q) ==
    IF q = <<>> THEN <<>>
    ELSE LET front == FirstSeen(SubSeq(q, 1, Len(q) - 1))
         IN  IF q[Len(q)] \in Range(front) THEN front ELSE Append(front, q[Len(q)])

\* The elements of S in the order they occur in ord.
RECURSIVE Listed(_, _)
Listed(S, ord) ==
    IF ord = <<>> THEN <<>>
    ELSE IF Head(ord) \in S THEN <<Head(ord)>> \o Listed(S, Tail(ord))
    ELSE Listed(S, Tail(ord))

RECURSIVE TagPair(_, _, _)
TagPair(a, b, rolls) ==
    IF rolls = <<>> THEN <<>>
    ELSE << <<a, b, Head(rolls)>> >> \o TagPair(a, b, Tail(rolls))

\* check_clashes; the intersection of two sets iterates in the order ord
\* lists its elements.
RECURSIVE ClashLoop(_, _, _, _, _)
ClashLoop(subs, rolls, ord, i, j) ==
    IF i > Len(subs) THEN <<>>
    ELSE IF j > Len(subs) THEN ClashLoop(subs, rolls, ord, i + 1, i + 2)
    ELSE TagPair(subs[i], subs[j], Listed(rolls[subs[i]] \cap rolls[subs[j]], ord))
         \o ClashLoop(subs, rolls, ord, i, j + 1)

\* Variant: the inner index starts at the outer one (range(i, len(subs))).
check_clashes_SelfPairs(subs, rolls, ord) == ClashLoop(subs, rolls, ord, 1, 1)

check_clashes(subs, rolls, ord) == ClashLoop(subs, rolls, ord, 1, 2)

CheckClashes ==
    /\ pc = "clashes"
    /\ \E ord \in Perms(Students) :
          clashes' = check_clashes(FirstSeen(subjects), subject_rolls, ord)
    /\ pc' = "assign"
    /\ UNCHANGED << args, caller, set_order, rosters, rooms_info, rooms_by_block,
                    assignments, order, loopvars, outputs, history >>

\* -------------------------------------------------------------- allocation
\* Variant: s goes in front of the elements of equal count.
RECURSIVE InsertByCount_Unstable(_, _, _)
InsertByCount_Unstable(sorted, s, counts) ==
    IF sorted = <<>> THEN <<s>>
    ELSE IF counts[Head(sorted)] > counts[s]
         THEN <<Head(sorted)>> \o InsertByCount_Unstable(Tail(sorted), s, counts)
         ELSE <<s>> \o sorted

\* Insert s behind every element whose count is at least its own.
RECURSIVE InsertByCount(_, _, _)
InsertByCount(sorted, s, counts) ==
    IF sorted = <<>> THEN <<s>>
    ELSE IF counts[Head(sorted)] >= counts[s]
         THEN <<Head(sorted)>> \o InsertByCount(Tail(sorted), s, counts)
         ELSE <<s>> \o sorted

\* sorted(subjects, key=lambda x: -subject_counts[x]): stable, descending.
RECURSIVE SortLoop(_, _, _)
SortLoop(rest, sorted, counts) ==
    IF rest = <<>> THEN sorted
    ELSE SortLoop(Tail(rest), InsertByCount(sorted, Head(rest), counts), counts)

SortedSubjects(subs, counts) == SortLoop(subs, <<>>, counts)

TotalRemaining(entries) == SumSeq([i \in 1..Len(entries) |-> entries[i].remaining])

StartAllocation ==
    /\ pc = "assign"
    /\ assignments' = [s \in Range(subjects) |-> <<>>]
    /\ order' = SortedSubjects(subjects, subject_counts)
    /\ si' = 1
    /\ pc' = "subject"
    /\ UNCHANGED << args, caller, set_order, rosters, rooms_info, rooms_by_block,
                    clashes, needed, assigned, bi, ri, outputs, history >>

\* for s in sorted(...): needed = subject_counts[s]; assigned = 0
NextSubject ==
    /\ pc = "subject"
    /\ si <= Len(order)
    /\ needed' = subject_counts[order[si]]
    /\ assigned' = 0
    /\ bi' = 1
    /\ ri' = 1
    /\ h_passes' = Append(h_passes, order[si])
    /\ h_avail' = TotalRemaining(rooms_info)
    /\ h_base' = Len(assignments[order[si]])
    /\ IF rooms_by_block = <<>>
       THEN si' = si + 1 /\ pc' = "subject"
       ELSE si' = si /\ pc' = "room"
    /\ UNCHANGED << args, caller, set_order, rosters, rooms_info, rooms_by_block,
                    clashes, assignments, order, outputs >>

CurRoom == rooms_by_block[bi].rooms[ri]

\* Variant: the room's remaining capacity is not consulted.
Take_IgnoresRemaining(remaining, need, done) == need - done

\* Variant: a room that cannot hold all who are still needed gives nothing.
Take_AllOrNothing(remaining, need, done) ==
    IF remaining >= need - done THEN need - done ELSE 0

Take(remaining, need, done) == Min(remaining, need - done)

\* Variant: the seats taken are not deducted, so each subject finds every
\* room at its full effective capacity.
Deduct_PerSubject(entries, room, take) == entries

\* rooms_info[r]["remaining"] -= take
Deduct(entries, room, take) ==
    [entries EXCEPT ![RoomIndex(entries, room)].remaining = @ - take]

\* Variant: every slice starts at the front of the roster.
Slice_FromStart(rolls, from, take) == SubSeq(rolls, 1, take)

\* Variant: rolls named in a clash are left out of the slice.
Slice_SkipsClashing(rolls, from, take) ==
    Listed({rolls[i] : i \in (from + 1)..(from + take)}
              \ {clashes[i][3] : i \in 1..Len(clashes)},
           rolls)

\* list(subject_rolls[s])[assigned:assigned + take]
Slice(rolls, from, take) == SubSeq(rolls, from + 1, from + take)

\* One turn of "for r in room_list".
VisitRoom ==
    /\ pc = "room"
    /\ LET s == order[si]
           k == RoomIndex(rooms_info, CurRoom)
           take == Take(rooms_info[k].remaining, needed, assigned)
       IN  IF assigned >= needed
           THEN /\ pc' = "blockend"
                /\ UNCHANGED << rooms_info, assignments, assigned, ri >>
           ELSE /\ IF take > 0
                   THEN /\ assignments' =
                              [assignments EXCEPT ![s] =
                                  Append(@, [room |-> CurRoom,
                                             rolls |-> Slice(roll_order[s], assigned, take)])]
                        /\ rooms_info' = Deduct(rooms_info, CurRoom, take)
                        /\ assigned' = assigned + take
                   ELSE UNCHANGED << rooms_info, assignments, assigned >>
                /\ ri' = ri + 1
                /\ pc' = IF ri + 1 > Len(rooms_by_block[bi].rooms) THEN "blockend" ELSE "room"
    /\ UNCHANGED << args, caller, set_order, rosters, rooms_by_block, clashes, order,
                    si, needed, bi, outputs, history >>

\* Variant: the pass ends after the first block whatever is still needed.
BlockEnd_StopsAfterFirstBlock ==
    /\ pc = "blockend"
    /\ si' = si + 1 /\ pc' = "subject"
    /\ UNCHANGED << args, caller, set_order, rosters, rooms_info, rooms_by_block,
                    clashes, assignments, order, needed, assigned, bi, ri, outputs,
                    history >>

\* After a block's rooms: "if assigned >= needed: break", else the next block.
BlockEnd ==
    /\ pc = "blockend"
    /\ IF assigned >= needed \/ bi = Len(rooms_by_block)
       THEN si' = si + 1 /\ pc' = "subject" /\ UNCHANGED << bi, ri >>
       ELSE bi' = bi + 1 /\ ri' = 1 /\ pc' = "room" /\ UNCHANGED si
    /\ UNCHANGED << args, caller, set_order, rosters, rooms_info, rooms_by_block,
                    clashes, assignments, order, needed, assigned, outputs, history >>

\* ----------------------------------------------------------------- reports
RECURSIVE SeatingRows(_, _)
SeatingRows(subs, asg) ==
    IF subs = <<>> THEN <<>>
    ELSE [i \in 1..Len(asg[Head(subs)]) |->
             [course_code |-> Head(subs), room |-> asg[Head(subs)][i].room,
              count |-> Len(asg[Head(subs)][i].rolls),
              rolls |-> asg[Head(subs)][i].rolls]]
         \o SeatingRows(Tail(subs), asg)

\* Variant: only the rooms that still have seats are reported.
VacancyRows_OnlyVacant(entries) ==
    LET open == SelectSeq(entries, LAMBDA e : e.remaining > 0)
    IN  [i \in 1..Len(open) |->
            [room |-> open[i].room, capacity |-> open[i].capacity,
             block |-> open[i].block,
             alloted |-> open[i].capacity - open[i].remaining,
             vacant |-> open[i].remaining]]

VacancyRows(entries) ==
    [i \in 1..Len(entries) |->
        [room |-> entries[i].room, capacity |-> entries[i].capacity,
         block |-> entries[i].block,
         alloted |-> entries[i].capacity - entries[i].remaining,
         vacant |-> entries[i].remaining]]

BuildReports ==
    /\ pc = "subject"
    /\ si > Len(order)
    /\ overall_rows' = SeatingRows(subjects, assignments)
    /\ seats_left_rows' = VacancyRows(rooms_info)
    /\ pc' = "done"
    /\ UNCHANGED << args, caller, set_order, rosters, rooms_info, rooms_by_block,
                    clashes, assignments, order, loopvars, history >>

\* ---------------------------------------------------------------- sessions
\* A fresh call of allocate_for_slot: its locals as Init leaves them.
FreshCall ==
    /\ subject_rolls' = <<>> /\ roll_order' = <<>> /\ subject_counts' = <<>>
    /\ rooms_info' = <<>> /\ rooms_by_block' = <<>>
    /\ clashes' = <<>> /\ assignments' = <<>> /\ order' = <<>>
    /\ si' = 0 /\ needed' = 0 /\ assigned' = 0 /\ bi' = 0 /\ ri' = 0
    /\ overall_rows' = <<>> /\ seats_left_rows' = <<>>
    /\ pc' = "rosters"
    /\ h_passes' = <<>> /\ h_avail' = 0 /\ h_base' = 0

\* The call has returned: run() collects its rows and calls again for the
\* next session of the timetable.
NextSession ==
    /\ pc = "done"
    /\ ti < Len(timetable)
    /\ all_overall' = all_overall \o overall_rows
    /\ all_seats_left' = all_seats_left \o seats_left_rows
    /\ ti' = ti + 1
    /\ subjects' = timetable[ti + 1]
    /\ FreshCall
    /\ UNCHANGED << students_by_subject, rooms_df, buffer, density, timetable,
                    set_order, reruns, h_prev >>

\* The last session has returned: run() collects its rows and writes the
\* two reports.
SaveReports ==
    /\ pc = "done"
    /\ ti = Len(timetable)
    /\ all_overall' = all_overall \o overall_rows
    /\ all_seats_left' = all_seats_left \o seats_left_rows
    /\ pc' = "saved"
    /\ UNCHANGED << args, timetable, ti, set_order, reruns, h_prev, rosters, rooms_info,
                    rooms_by_block, clashes, assignments, order, loopvars, outputs,
                    history >>

\* The program is launched again on the same workbook with the same
\* options: a new process, whose sets need not iterate as before.
Relaunch ==
    /\ pc = "saved"
    /\ reruns > 0
    /\ reruns' = reruns - 1
    /\ h_prev' = Append(h_prev, all_overall)
    /\ all_overall' = <<>> /\ all_seats_left' = <<>>
    /\ set_order' = <<>>
    /\ ti' = 1
    /\ subjects' = timetable[1]
    /\ FreshCall
    /\ UNCHANGED << students_by_subject, rooms_df, buffer, density, timetable >>

Next ==
    \/ BuildRosters
    \/ BuildRooms
    \/ InitRemaining
    \/ CheckClashes
    \/ StartAllocation
    \/ NextSubject
    \/ VisitRoom
    \/ BlockEnd
    \/ BuildReports
    \/ NextSession
    \/ SaveReports
    \/ Relaunch

Spec == Init /\ [][Next]_vars

\* ------------------------------------------------------- claim vocabulary
Allocating == pc \in {"subject", "room", "blockend", "done"}
Finished == pc = "done"

\* The step stays inside the running call of allocate_for_slot.
SameCall == pc' # "rosters"

NoRepeat(q) == \A i, j \in 1..Len(q) : i # j => q[i] # q[j]

Occurrences(q, x) == Cardinality({i \in 1..Len(q) : q[i] = x})

\* Sizes of the slices of a list of allocation entries.
SliceSizes(entries) == [i \in 1..Len(entries) |-> Len(entries[i].rolls)]

\* All rolls of a list of allocation entries, in entry order.
RECURSIVE Joined(_)
Joined(entries) ==
    IF entries = <<>> THEN <<>> ELSE Head(entries).rolls \o Joined(Tail(entries))

\* Effective per-subject capacity of every room, summed.
TotalCapacity ==
    SumSeq([i \in 1..Len(rooms_info) |->
               IF density = "sparse"
               THEN Max(0, rooms_info[i].capacity - buffer) \div 2
               ELSE Max(0, rooms_info[i].capacity - buffer)])

TotalEnrollment == SumSeq([i \in 1..Len(subjects) |-> subject_counts[subjects[i]]])

\* Entries of assignments[s] that hold roll x.
EntriesWith(s, x) ==
    {i \in 1..Len(assignments[s]) : x \in Range(assignments[s][i].rolls)}

\* C1: when the active subjects are distinct and the rooms' total effective
\* per-subject capacity covers their total enrollment, the finished
\* allocation holds every enrolled roll of every subject in exactly one
\* entry of that subject, once.
C1_EveryoneSeatedOnce ==
    (Finished /\ NoRepeat(subjects) /\ TotalCapacity >= TotalEnrollment)
    => \A s \in Range(subjects) :
          \A x \in RollSet(students_by_subject, s) :
              /\ Cardinality(EntriesWith(s, x)) = 1
              /\ Occurrences(Joined(assignments[s]), x) = 1

C1_Witness ==
    /\ Finished /\ NoRepeat(subjects) /\ TotalCapacity >= TotalEnrollment
    /\ Len(subjects) = 2
    /\ \E s \in Range(subjects) : Len(assignments[s]) = 2
    /\ \A s \in Range(subjects) : subject_counts[s] >= 1

\* C2: once the remaining capacities are set, every room's remaining
\* capacity stays between 0 and its effective per-subject capacity, and no
\* step raises it.
C2_RemainingBounded ==
    Allocating =>
        \A i \in 1..Len(rooms_info) :
            /\ rooms_info[i].remaining >= 0
            /\ rooms_info[i].remaining
                  <= (IF density = "sparse"
                      THEN Max(0, rooms_info[i].capacity - buffer) \div 2
                      ELSE Max(0, rooms_info[i].capacity - buffer))

C2_NeverRegains ==
    (Allocating /\ SameCall) =>
        /\ Len(rooms_info') = Len(rooms_info)
        /\ \A i \in 1..Len(rooms_info) :
              rooms_info'[i].remaining <= rooms_info[i].remaining

\* C2: in every state of the allocation each room's remaining capacity is
\* within 0 and its effective per-subject capacity, and no step raises it.
C2_RemainingInvariant == [](C2_RemainingBounded) /\ [][C2_NeverRegains]_vars

C2_Witness ==
    /\ pc = "room"
    /\ buffer > 0
    /\ \E i \in 1..Len(rooms_info) :
          /\ rooms_info[i].remaining > 0
          /\ rooms_info[i].remaining < Max(0, rooms_info[i].capacity - buffer)
    /\ \E i \in 1..Len(rooms_info) : rooms_info[i].capacity <= buffer

\* C3: for every subject, the rolls allocated to it over all its entries
\* number at most the size of its deduplicated roster, and each of them is
\* in that roster.
C3_WithinRoster ==
    Allocating =>
        \A s \in DOMAIN assignments :
            /\ Len(Joined(assignments[s])) <= Cardinality(RollSet(students_by_subject, s))
            /\ Range(Joined(assignments[s])) \subseteq RollSet(students_by_subject, s)

\* C4: the allocation holds at most one entry per (subject, room) pair and
\* no entry is empty.
C4_OneEntryPerPair ==
    Allocating =>
        \A s \in DOMAIN assignments :
            /\ \A i, j \in 1..Len(assignments[s]) :
                  i # j => assignments[s][i].room # assignments[s][j].room
            /\ \A i \in 1..Len(assignments[s]) : assignments[s][i].rolls # <<>>

\* The elements of q whose count is c, in order.
RECURSIVE WithCount(_, _)
WithCount(q, c) ==
    IF q = <<>> THEN <<>>
    ELSE IF subject_counts[Head(q)] = c THEN <<Head(q)>> \o WithCount(Tail(q), c)
    ELSE WithCount(Tail(q), c)

IsPrefix(a, b) == Len(a) <= Len(b) /\ a = SubSeq(b, 1, Len(a))

\* C5: passes begin in stable descending order of roster size: counts never
\* rise along the passes, a pass begins only when every occurrence of every
\* strictly larger subject has had its pass, subjects of equal size have
\* their passes in the order of the supplied list, and only the subject whose
\* pass is under way receives entries.
C5_PassOrder ==
    Allocating =>
        /\ \A i, j \in 1..Len(h_passes) :
              i < j => subject_counts[h_passes[i]] >= subject_counts[h_passes[j]]
        /\ \A i \in 1..Len(h_passes) : \A t \in Range(subjects) :
              subject_counts[t] > subject_counts[h_passes[i]]
                 => Occurrences(SubSeq(h_passes, 1, i), t) = Occurrences(subjects, t)
        /\ \A c \in 0..Cardinality(Students) :
              IsPrefix(WithCount(h_passes, c), WithCount(subjects, c))
        /\ Finished => Len(h_passes) = Len(subjects)

C5_OnlyCurrentDraws ==
    (Allocating /\ SameCall) =>
        \A s \in DOMAIN assignments :
            assignments'[s] # assignments[s]
               => h_passes # <<>> /\ s = h_passes[Len(h_passes)]

\* C5: passes run in stable descending order of roster size and only the
\* subject whose pass is under way draws from the rooms.
C5_StableDescending == [](C5_PassOrder) /\ [][C5_OnlyCurrentDraws]_vars

C5_Witness ==
    /\ Finished
    /\ Len(subjects) = 2 /\ subjects[1] # subjects[2]
    /\ subject_counts[subjects[1]] = subject_counts[subjects[2]]
    /\ assignments[subjects[1]] # <<>> /\ assignments[subjects[2]] # <<>>
    /\ h_passes = subjects

C5_WitnessLargerSecond ==
    /\ Finished
    /\ Len(subjects) = 2
    /\ subject_counts[subjects[1]] < subject_counts[subjects[2]]
    /\ h_passes = <<subjects[2], subjects[1]>>

\* ------------------------------------------------------ passes and slices
\* The subject whose pass is under way, or was the last to end.
PassSubject == h_passes[Len(h_passes)]

\* The entries that pass has added.
PassEntries ==
    SubSeq(assignments[PassSubject], h_base + 1, Len(assignments[PassSubject]))

PassEnded == h_passes # <<>> /\ pc \in {"subject", "done"}

IsInput(inp) ==
    /\ subjects = inp.subjects /\ students_by_subject = inp.students_by_subject
    /\ rooms_df = inp.rooms_df /\ buffer = inp.buffer /\ density = inp.density

\* C6: a room visited while the subject still needs seats yields a slice of
\* min(remaining, still needed) rolls, appended as one entry when it is not
\* empty, and the room's remaining capacity drops by that amount while the
\* other rooms keep theirs.
C6_VisitTakesMin ==
    (pc = "room" /\ assigned < needed) =>
        LET k == RoomIndex(rooms_info, CurRoom)
            t == IF rooms_info[k].remaining <= needed - assigned
                 THEN rooms_info[k].remaining ELSE needed - assigned
            old == assignments[PassSubject]
            new == assignments'[PassSubject]
        IN  /\ rooms_info'[k].remaining = rooms_info[k].remaining - t
            /\ \A i \in 1..Len(rooms_info) : i # k => rooms_info'[i] = rooms_info[i]
            /\ assigned' = assigned + t
            /\ IF t > 0
               THEN /\ Len(new) = Len(old) + 1
                    /\ SubSeq(new, 1, Len(old)) = old
                    /\ new[Len(new)].room = CurRoom
                    /\ Len(new[Len(new)].rolls) = t
               ELSE new = old

\* The slices of a pass, joined in visiting order, are the first `assigned`
\* rolls of the roster order, each roll once.
C6_PassIsPrefix ==
    (Allocating /\ h_passes # <<>>) =>
        /\ Joined(PassEntries) = SubSeq(roll_order[PassSubject], 1, assigned)
        /\ NoRepeat(Joined(PassEntries))
        /\ assigned <= needed

\* The worked example: 3 in room 1, then 1 in room 1 and 1 in room 2,
\* leaving 0 and 3.
C6_Example ==
    (Finished /\ IsInput(ExampleTwoRooms)) =>
        /\ SliceSizes(assignments["A"]) = <<3>>
        /\ assignments["A"][1].room = <<"1">>
        /\ SliceSizes(assignments["B"]) = <<1, 1>>
        /\ assignments["B"][1].room = <<"1">> /\ assignments["B"][2].room = <<"2">>
        /\ rooms_info[1].remaining = 0 /\ rooms_info[2].remaining = 3

\* C6: every visit takes min(remaining, still needed) from the room, and the
\* slices of a pass joined in visiting order are the first rolls of the
\* roster order, none twice; the worked example comes out as stated.
C6_SlicesArePrefix ==
    [](C6_PassIsPrefix /\ C6_Example) /\ [][C6_VisitTakesMin]_vars

C6_Witness ==
    /\ Finished /\ IsInput(ExampleTwoRooms)
    /\ Len(assignments["B"]) = 2

\* C7: a pass that begins with less total remaining capacity than the
\* subject's roster size seats exactly that many rolls, the first of the
\* roster order, leaves every room at 0, and the rest of the roster is in
\* none of the entries the pass made (in none of the subject's entries when
\* the subject is listed once); no state of the allocation loops is stuck.
C7_OverDemand ==
    /\ (PassEnded /\ h_avail < Cardinality(RollSet(students_by_subject, PassSubject))) =>
          LET s == PassSubject
              size == Cardinality(RollSet(students_by_subject, s))
              unseated == {roll_order[s][i] : i \in (h_avail + 1)..size}
          IN  /\ assigned = h_avail
              /\ Len(Joined(PassEntries)) = h_avail
              /\ \A i \in 1..Len(rooms_info) : rooms_info[i].remaining = 0
              /\ unseated \cap Range(Joined(PassEntries)) = {}
              /\ Cardinality(unseated) = size - h_avail
              /\ Occurrences(subjects, s) = 1
                    => unseated \cap Range(Joined(assignments[s])) = {}
    /\ (IsInput(ExampleOverDemand) /\ Finished) =>
          /\ SliceSizes(assignments["A"]) = <<2>>
          /\ Cardinality(Range(Joined(assignments["A"]))) = 2
    /\ pc \in {"subject", "room", "blockend"} => ENABLED Next

C7_Witness ==
    /\ Finished /\ NoRepeat(subjects)
    /\ Len(h_passes) = 2 /\ Len(rooms_by_block) = 2
    /\ h_avail >= 1 /\ h_avail < needed /\ assigned = h_avail
    /\ PassEntries # <<>>
    /\ PassEntries[Len(PassEntries)].room \in Range(rooms_by_block[2].rooms)

C7_WitnessExample == Finished /\ IsInput(ExampleOverDemand)

\* First position of x in q.
FirstPos(q, x) == CHOOSE i \in 1..Len(q) : q[i] = x /\ \A j \in 1..(i - 1) : q[j] # x

\* C8: the clash list holds, once each, exactly the tuples <<A, B, roll>> with
\* A and B distinct active subjects, A first supplied before B, and roll in
\* both rosters.
C8_ClashesExact ==
    pc \notin {"rosters", "rooms", "remaining", "clashes"} =>
        /\ Range(clashes) =
              {<<a, b, x>> : a \in Range(subjects), b \in Range(subjects), x \in Students}
                 \cap {t \in Range(subjects) \X Range(subjects) \X Students :
                          /\ FirstPos(subjects, t[1]) < FirstPos(subjects, t[2])
                          /\ t[3] \in RollSet(students_by_subject, t[1])
                          /\ t[3] \in RollSet(students_by_subject, t[2])}
        /\ NoRepeat(clashes)
        /\ \A i \in 1..Len(clashes) : clashes[i][1] # clashes[i][2]
        /\ \A i, j \in 1..Len(clashes) :
              ~(clashes[i][1] = clashes[j][2] /\ clashes[i][2] = clashes[j][1])

C8_Witness ==
    /\ pc = "assign"
    /\ Len(clashes) = 2
    /\ \E x \in Students : \E s \in Range(subjects) :
          x \in subject_rolls[s] /\ \A i \in 1..Len(clashes) : clashes[i][3] # x

\* ------------------------------------------- allocation without clashes
\* The rooms in visiting order: block after block, room after room.
RECURSIVE VisitOrder(_)
VisitOrder(blocks) ==
    IF blocks = <<>> THEN <<>> ELSE Head(blocks).rooms \o VisitOrder(Tail(blocks))

\* One subject over the rooms still to visit: rem maps a room to its
\* remaining capacity, got counts the rolls already placed.
RECURSIVE PlainPass(_, _, _, _, _)
PlainPass(rolls, rooms, rem, got, entries) ==
    IF rooms = <<>> THEN [rem |-> rem, entries |-> entries]
    ELSE LET r == Head(rooms)
             left == Len(rolls) - got
             t == IF rem[r] <= left THEN rem[r] ELSE left
         IN  IF t > 0
             THEN PlainPass(rolls, Tail(rooms), [rem EXCEPT ![r] = @ - t], got + t,
                            Append(entries,
                                   [room |-> r, rolls |-> SubSeq(rolls, got + 1, got + t)]))
             ELSE PlainPass(rolls, Tail(rooms), rem, got, entries)

RECURSIVE PlainAllocation(_, _, _)
PlainAllocation(subs, rem, asg) ==
    IF subs = <<>> THEN [rem |-> rem, asg |-> asg]
    ELSE LET s == Head(subs)
             p == PlainPass(roll_order[s], VisitOrder(rooms_by_block), rem, 0, <<>>)
         IN  PlainAllocation(Tail(subs), p.rem, [asg EXCEPT ![s] = @ \o p.entries])

\* The outcome computed from the rosters and rooms alone.
PlainOutcome ==
    PlainAllocation(
        order,
        [r \in {rooms_info[i].room : i \in 1..Len(rooms_info)} |->
            LET c == rooms_info[RoomIndex(rooms_info, r)].capacity
                e == IF c - buffer > 0 THEN c - buffer ELSE 0
            IN  IF density = "sparse" THEN e \div 2 ELSE e],
        [s \in Range(subjects) |-> <<>>])

\* C9: the finished allocation and the final remaining capacities are those
\* computed from the rosters and rooms alone, whatever the clash list holds;
\* computing the clash list changes nothing else and the list is not
\* changed afterwards; with distinct subjects and enough capacity a roll in
\* two rosters is seated once under each of the two subjects.
C9_Outcome ==
    /\ Finished =>
          /\ assignments = PlainOutcome.asg
          /\ \A i \in 1..Len(rooms_info) :
                rooms_info[i].remaining = PlainOutcome.rem[rooms_info[i].room]
    /\ (Finished /\ NoRepeat(subjects) /\ TotalCapacity >= TotalEnrollment) =>
          \A a \in Range(subjects) : \A b \in Range(subjects) \ {a} :
              \A x \in RollSet(students_by_subject, a) \cap RollSet(students_by_subject, b) :
                  /\ Occurrences(Joined(assignments[a]), x) = 1
                  /\ Occurrences(Joined(assignments[b]), x) = 1

C9_ClashFrame ==
    /\ (clashes' # clashes /\ SameCall) =>
          /\ pc = "clashes"
          /\ UNCHANGED << args, rosters, rooms_info, rooms_by_block, assignments, order,
                          loopvars, outputs >>
    /\ (pc # "clashes" /\ SameCall) => clashes' = clashes

\* C9: the clash list never alters the allocation: the outcome is the one
\* computed without it, and a roll shared by two subjects is seated under
\* both.
C9_ClashesDoNotAlter == [](C9_Outcome) /\ [][C9_ClashFrame]_vars

C9_Witness ==
    /\ Finished /\ NoRepeat(subjects) /\ TotalCapacity >= TotalEnrollment
    /\ clashes # <<>>
    /\ \A i \in 1..Len(clashes) :
          /\ clashes[i][3] \in Range(Joined(assignments[clashes[i][1]]))
          /\ clashes[i][3] \in Range(Joined(assignments[clashes[i][2]]))

\* C10: right after the remaining capacities are set, each room's remaining
\* capacity is max(0, capacity - buffer) in dense mode and the floor of half
\* of that in sparse mode, so never negative; capacity 20 under buffer 5
\* gives 15 dense and 7 sparse.
C10_InitialRemaining ==
    pc = "clashes" =>
        \A i \in 1..Len(rooms_info) :
            LET c == rooms_info[i].capacity
                e == IF c - buffer > 0 THEN c - buffer ELSE 0
                rem == rooms_info[i].remaining
            IN  /\ density = "dense" => rem = e
                /\ density = "sparse" => 2 * rem <= e /\ e < 2 * rem + 2
                /\ rem >= 0
                /\ c < buffer => rem = 0
                /\ (c = 20 /\ buffer = 5 /\ density = "dense") => rem = 15
                /\ (c = 20 /\ buffer = 5 /\ density = "sparse") => rem = 7

C10_Witness ==
    /\ pc = "clashes"
    /\ \E i \in 1..Len(rooms_info) :
          rooms_info[i].capacity < buffer /\ rooms_info[i].capacity >= 0
    /\ density = "sparse"

C10_WitnessExample ==
    /\ pc = "clashes" /\ IsInput(ExampleBuffer("sparse"))
    /\ rooms_info[1].capacity = 20 /\ rooms_info[1].remaining = 7

\* ------------------------------------------------------------- room entries
RoomsRead == pc \notin {"rosters", "rooms"}

\* The record a room entry holds: the last one carrying that room id.
LastRecord(room) ==
    rooms_df[CHOOSE i \in 1..Len(rooms_df) :
                /\ safe_strip(rooms_df[i].room) = room
                /\ \A j \in (i + 1)..Len(rooms_df) : safe_strip(rooms_df[j].room) # room]

\* C12: every room entry built from the room records stores a raw capacity
\* that is a non-negative integer; an absent, blank or non-numeric capacity
\* cell is stored as 0 and the build goes on, and an absent or blank block
\* cell is stored as the block "Block".
C12_RoomEntries ==
    /\ pc = "rooms" => ENABLED BuildRooms
    /\ RoomsRead =>
          \A i \in 1..Len(rooms_info) :
              LET e == rooms_info[i]
                  rec == LastRecord(e.room)
              IN  /\ e.capacity \in Nat
                  /\ ~FloatOk(safe_strip(rec.cap)) => e.capacity = 0
                  /\ safe_strip(rec.block) = <<>> => e.block = <<"B", "l", "o", "c", "k">>

\* The part of C12 that the code keeps: unreadable capacities become 0 and
\* blank blocks become "Block".
C12_Coerced ==
    RoomsRead =>
        \A i \in 1..Len(rooms_info) :
            LET e == rooms_info[i]
                rec == LastRecord(e.room)
            IN  /\ e.capacity \in Int
                /\ ~FloatOk(safe_strip(rec.cap)) => e.capacity = 0
                /\ safe_strip(rec.block) = <<>> => e.block = <<"B", "l", "o", "c", "k">>

\* ------------------------------------------------------------ vacancy rows
CatalogRooms == {safe_strip(rooms_df[i].room) : i \in 1..Len(rooms_df)}

\* C13: the vacancy report has exactly one row per room of the catalog; the
\* row's Vacant is the room's final remaining capacity and its Alloted is
\* the raw capacity minus that, so Alloted + Vacant is the raw capacity.
C13_VacancyRows ==
    Finished =>
        /\ {seats_left_rows[i].room : i \in 1..Len(seats_left_rows)} = CatalogRooms
        /\ Len(seats_left_rows) = Cardinality(CatalogRooms)
        /\ \A i \in 1..Len(seats_left_rows) :
              LET row == seats_left_rows[i]
                  info == rooms_info[RoomIndex(rooms_info, row.room)]
              IN  /\ row.capacity = ParseCapacity(LastRecord(row.room).cap)
                  /\ row.vacant = info.remaining
                  /\ row.vacant = PlainOutcome.rem[row.room]
                  /\ row.alloted = row.capacity - info.remaining
                  /\ row.alloted + row.vacant = row.capacity

C13_Witness ==
    /\ Finished
    /\ Len(rooms_df) > Len(seats_left_rows)
    /\ \E i \in 1..Len(seats_left_rows) :
          seats_left_rows[i].vacant = 0 /\ seats_left_rows[i].alloted > 0

C13_WitnessPartlyUsed ==
    /\ Finished
    /\ \E i, j \in 1..Len(seats_left_rows) :
          /\ i # j
          /\ seats_left_rows[i].vacant > 0 /\ seats_left_rows[i].alloted > 0
          /\ seats_left_rows[j].vacant = 0

\* ----------------------------------------------------------- untouched rooms
\* No subject was seated in the room.
Untouched(room) ==
    \A s \in Range(subjects) :
        \A k \in 1..Len(assignments[s]) : assignments[s][k].room # room

BufferedRun ==
    /\ Finished /\ buffer > 0
    /\ \A i \in 1..Len(rooms_info) : rooms_info[i].capacity >= 0

\* C14 as stated: with non-negative raw capacities and a positive buffer,
\* a room in which no subject was seated is reported with a negative
\* Alloted.
C14_NegativeAlloted ==
    BufferedRun =>
        \A i \in 1..Len(seats_left_rows) :
            Untouched(seats_left_rows[i].room) => seats_left_rows[i].alloted < 0

\* C14, amended: with non-negative raw capacities and a positive buffer, the
\* Alloted of a room in which no subject was seated is never negative: it
\* is the raw capacity minus the effective per-subject capacity, that is
\* min(capacity, buffer) in dense mode and at least that in sparse mode, so
\* it is positive for any room with capacity although nobody sits there.
C14_UntouchedAlloted ==
    BufferedRun =>
        \A i \in 1..Len(seats_left_rows) :
            LET row == seats_left_rows[i] IN
            Untouched(row.room) =>
                /\ row.alloted >= 0
                /\ row.alloted = row.capacity - eff_cap_per_sub(row.capacity, buffer, density)
                /\ density = "dense" => row.alloted = Min(row.capacity, buffer)
                /\ row.alloted >= Min(row.capacity, buffer)
                /\ row.capacity > 0 => row.alloted > 0

C14_Witness ==
    /\ BufferedRun
    /\ \E i, j \in 1..Len(seats_left_rows) :
          /\ Untouched(seats_left_rows[i].room)
          /\ seats_left_rows[i].capacity > 0
          /\ seats_left_rows[i].alloted > 0
          /\ ~Untouched(seats_left_rows[j].room)

\* ---------------------------------------------------------- room occupancy
\* Students seated in a room under one subject, under all subjects.
SeatedUnder(s, room) ==
    SumSeq([k \in 1..Len(assignments[s]) |->
               IF assignments[s][k].room = room THEN Len(assignments[s][k].rolls) ELSE 0])

Seated(room) ==
    LET keys == FirstSeen(subjects)
    IN  SumSeq([n \in 1..Len(keys) |-> SeatedUnder(keys[n], room)])

\* C17: at every point of the allocation, for every room, the students
\* seated in it under all subjects together number its initial effective
\* per-subject capacity minus its current remaining capacity; so the
\* room's total occupancy never exceeds that capacity: the "per-subject"
\* capacity bounds the room as a whole.
C17_Conservation ==
    Allocating =>
        \A i \in 1..Len(rooms_info) :
            LET c == rooms_info[i].capacity
                e == IF c - buffer > 0 THEN c - buffer ELSE 0
                eff == IF density = "sparse" THEN e \div 2 ELSE e
            IN  /\ Seated(rooms_info[i].room) = eff - rooms_info[i].remaining
                /\ Seated(rooms_info[i].room) <= eff

C17_Witness ==
    /\ pc = "room"
    /\ \E i \in 1..Len(rooms_info) :
          /\ rooms_info[i].remaining = 0
          /\ \E a, b \in Range(subjects) :
                /\ a # b
                /\ SeatedUnder(a, rooms_info[i].room) > 0
                /\ SeatedUnder(b, rooms_info[i].room) > 0

\* ------------------------------------------------------------ visiting order
\* The blocks of the room records, each once, in order of first appearance.
CatalogBlocks == FirstSeen([i \in 1..Len(rooms_df) |-> ParseBlock(rooms_df[i].block)])

\* The rooms the records place in a block, in record order.
CatalogRoomsOf(block) ==
    LET recs == SelectSeq(rooms_df, LAMBDA r : ParseBlock(r.block) = block)
    IN  [i \in 1..Len(recs) |-> safe_strip(recs[i].room)]

RECURSIVE CatalogConcat(_)
CatalogConcat(blocks) ==
    IF blocks = <<>> THEN <<>>
    ELSE CatalogRoomsOf(Head(blocks)) \o CatalogConcat(Tail(blocks))

CatalogOrder == CatalogConcat(CatalogBlocks)

RemainingOf(room) == rooms_info[RoomIndex(rooms_info, room)].remaining

C16_VisitOrder ==
    /\ RoomsRead => VisitOrder(rooms_by_block) = CatalogOrder
    /\ (h_passes # <<>> /\ pc \in {"subject", "room", "blockend", "done"}) =>
          \A i, j \in 1..Len(PassEntries) :
              i < j => FirstPos(CatalogOrder, PassEntries[i].room)
                          < FirstPos(CatalogOrder, PassEntries[j].room)

C16_VisitStep ==
    /\ (pc = "room" /\ rooms_info' # rooms_info) =>
          LET r == CurRoom IN
          /\ \A n \in 1..(FirstPos(CatalogOrder, r) - 1) : RemainingOf(CatalogOrder[n]) = 0
          /\ \A i \in 1..Len(rooms_info) :
                rooms_info[i].room # r => rooms_info'[i] = rooms_info[i]
          /\ assigned' = needed \/ rooms_info'[RoomIndex(rooms_info, r)].remaining = 0
    /\ (pc \in {"room", "blockend"} /\ assigned >= needed) =>
          rooms_info' = rooms_info /\ assignments' = assignments

\* C16: for every subject the rooms are visited block by block in the order
\* the blocks first appear in the room records, and inside a block in the
\* order its rooms appear, even when the records interleave blocks; a room
\* gives seats only when every room before it in that order is full, and
\* once the subject's need is met no later room is touched by that subject.
C16_BlockOrder == [](C16_VisitOrder) /\ [][C16_VisitStep]_vars

C16_Witness ==
    /\ PassEnded
    /\ Len(rooms_df) = 3
    /\ ParseBlock(rooms_df[1].block) # ParseBlock(rooms_df[2].block)
    /\ ParseBlock(rooms_df[1].block) = ParseBlock(rooms_df[3].block)
    /\ Len(PassEntries) = 2
    /\ PassEntries[1].room = safe_strip(rooms_df[1].room)
    /\ PassEntries[2].room = safe_strip(rooms_df[3].room)
    /\ RemainingOf(safe_strip(rooms_df[2].room)) > 0

\* ----------------------------------------------------------------- sessions
\* The remaining capacities a call starts from, computed from the room
\* records and the options alone.
FreshRemaining(room) ==
    LET c == ParseCapacity(LastRecord(room).cap)
        e == IF c - buffer > 0 THEN c - buffer ELSE 0
    IN  IF density = "sparse" THEN e \div 2 ELSE e

C15_SessionAlone ==
    /\ pc = "clashes" =>
          /\ {rooms_info[i].room : i \in 1..Len(rooms_info)} = CatalogRooms
          /\ \A i \in 1..Len(rooms_info) :
                rooms_info[i].remaining = FreshRemaining(rooms_info[i].room)
    /\ Finished =>
          /\ order = SortedSubjects(subjects,
                        [s \in Range(subjects) |->
                            Cardinality(RollSet(students_by_subject, s))])
          /\ VisitOrder(rooms_by_block) = CatalogOrder
          /\ \A s \in Range(subjects) :
                roll_order[s] = set_order[RollList(students_by_subject, s)]
          /\ assignments = PlainOutcome.asg
          /\ \A i \in 1..Len(seats_left_rows) :
                LET row == seats_left_rows[i] IN
                /\ row.vacant = PlainOutcome.rem[row.room]
                /\ row.alloted = ParseCapacity(LastRecord(row.room).cap) - row.vacant
    /\ RoomsRead /\ pc # "saved" =>
          \A s \in Range(subjects) \ DOMAIN students_by_subject :
              subject_rolls[s] = {} /\ subject_counts[s] = 0
    /\ (pc = "saved" /\ Len(timetable) = 2 /\ timetable[1] = timetable[2]) =>
          /\ all_overall = overall_rows \o overall_rows
          /\ all_seats_left = seats_left_rows \o seats_left_rows

C15_InputsKept ==
    /\ students_by_subject' = students_by_subject
    /\ rooms_df' = rooms_df
    /\ timetable' = timetable /\ buffer' = buffer /\ density' = density

\* C15: over any sequence of sessions, each session starts with every
\* room's remaining capacity at its effective per-subject capacity, so its
\* allocation and vacancy rows are those of the session run alone; no
\* session changes the enrollment mapping or the room records, and a subject
\* missing from the mapping is an empty roster and is not added to it.
C15_SessionsIndependent == [](C15_SessionAlone) /\ [][C15_InputsKept]_vars

C15_Witness ==
    /\ Finished /\ ti = 2
    /\ \E i \in 1..Len(all_seats_left) : \E k \in 1..Len(seats_left_rows) :
          /\ all_seats_left[i].room = seats_left_rows[k].room
          /\ all_seats_left[i].vacant = 0 /\ all_seats_left[i].alloted > 0
          /\ seats_left_rows[k].alloted > 0

C15_WitnessMissing ==
    /\ pc = "saved" /\ ti = 2
    /\ Range(timetable[1]) \ DOMAIN students_by_subject # {}
    /\ all_overall # <<>>

\* ---------------------------------------------------------------- two runs
\* A later launch on the same workbook has collected all its rows.
SecondRunDone == pc = "saved" /\ h_prev # <<>>

\* C11: two runs over the same enrollment records and the same room
\* catalog produce identical allocations: the same student ids in the same
\* order in every (subject, room) slice.
C11_SameAllocations ==
    SecondRunDone => all_overall = h_prev[Len(h_prev)]

\* What two runs do share: the subjects, rooms and sizes of the slices.
C11_SameShape ==
    SecondRunDone =>
        LET before == h_prev[Len(h_prev)] IN
        /\ Len(all_overall) = Len(before)
        /\ \A i \in 1..Len(before) :
              /\ all_overall[i].course_code = before[i].course_code
              /\ all_overall[i].room = before[i].room
              /\ all_overall[i].count = before[i].count

====
